---- MODULE Spec2Model ----
(***************************************************************************)
(* FrameStep: a model of the renderer's frame cache (FrameCache) and of    *)
(* the navigation coordinator (VideoController) driving an HTML video      *)
(* element, translated from src/src/renderer/js.                           *)
(*                                                                         *)
(* The specifications share the variables:                                 *)
(*   SpecCache    the FrameCache object under arbitrary calls of its API   *)
(*                and completions of the extractions it scheduled;         *)
(*   SpecLru      the cache alone, with more keys, for its eviction order; *)
(*   SpecRecency  the same, with one get hit watched until its key goes;   *)
(*   SpecVC       the VideoController, the video element and the pending   *)
(*                async calls (loadVideo, stepFrame), on files whose       *)
(*                metadata is well formed;                                 *)
(*   SpecAnyFile  the same, also on a file whose frame rate is unparsable; *)
(*   SpecVCFair   SpecVC under the scheduling of the renderer;             *)
(*   SpecOverlap  the same, with two loadVideo calls awaiting their probes *)
(*                at once;                                                 *)
(*   SpecSpeed    the playback speed of the newer VideoController;         *)
(*   SpecProbe    FFmpegService.getMetadata on the reports of ffprobe;     *)
(*   SpecExtract  FFmpegService.extractFrame and extractFramesBatch with   *)
(*                their decode subprocesses;                               *)
(*   SpecSelect   one extractFrame call, on more frame numbers and rates.  *)
(***************************************************************************)
EXTENDS Integers, Sequences, FiniteSets, Bags, TLC

(***************************************************************************)
(* Bounds of the model.                                                    *)
(***************************************************************************)
\* the video of the cache's client has frames 0..MaxKey
MaxKey == 1
\* the cache is constructed with maxSize in 1..MaxCap
MaxCap == 2
\* extractions that may be running at the same time
MaxInflight == 2
\* prefetch radius is in 0..MaxRadius
MaxRadius == 1

\* media time is counted in ticks, TicksPerSecond of them in a second
TicksPerSecond == 2
\* the duration of the videos, in seconds
MaxDuration == 2
\* stepFrame is called with a delta in -MaxDelta..MaxDelta
MaxDelta == 2
\* seekToProgress is called with a fraction k / ProgressSteps, k in 0..ProgressSteps
ProgressSteps == 2
\* stepFrame calls that may be awaiting a seek at the same time
MaxSteps == 1
\* loadVideo calls that may be awaiting the metadata probe at the same time
MaxLoads == 1
\* media events that may be queued and not yet dispatched
MaxEvents == 1

\* the recency claims are checked on a cache of LruCap entries and keys 0..LruMaxKey
LruCap == 3
LruMaxKey == 3

Keys == 0..MaxKey
LruKeys == 0..LruMaxKey
\* frame payloads
Values == {"x", "y"}
\* the payload of the frames that extractFn returns
CacheValues == {"x"}
\* metadata.totalFrames of the cache's client
CacheTotalFrames == MaxKey + 1

\* JavaScript null / undefined
Null == "null"
\* JavaScript NaN, as a number that no computation of the model produces
NaN == -1000
\* new FrameCache(30)
ControllerCacheSize == 30

VARIABLES
    \* ---- FrameCache (frame-cache.js 5-121)
    maxSize,            \* this.maxSize
    cache,              \* this.cache: a Map, as the sequence of its entries in insertion order
    extractions,        \* the extractFn calls that have not settled: a bag of [key, status];
                        \* this.pendingRequests holds the promises of those with status "pending"
    touched,            \* history: the cached keys from least to most recently touched
    recent,             \* history: the get hit that is watched, and what became of the
                        \* entries that were cached with it
    \* ---- VideoController (video-controller.js 5-411), the video element and the
    \* async calls that have not returned
    vc,                 \* the controller's fields and its canvas
    video,              \* the HTML video element, with its queue of events to dispatch
    steps,              \* the stepFrame calls awaiting 'seeked', in listener order
    loads,              \* the loadVideo calls awaiting the metadata probe: a bag of paths
    overlap,            \* history: two loadVideo calls that awaited their probes at the
                        \* same time, and how many of them returned, and returned true
    speed,              \* the controller's playbackRate, the element's playbackRate and
                        \* its queued 'ratechange' events (frame-cache.js 149-153, 193)
    \* ---- FFmpegService (ffmpeg-service.js 44-188)
    probe,              \* a getMetadata call: what ffprobe reported and what the call returned
    calls,              \* the extractFrame calls, in call order, each with its subprocess
    batch,              \* the extractFramesBatch call and what it returned
    \* ---- trace of the last operation
    last

cacheVars == <<maxSize, cache, extractions, touched, recent>>
vcVars == <<vc, video, steps, loads, overlap>>
svcVars == <<speed, probe, calls, batch>>
vars ==
    <<maxSize, cache, extractions, touched, recent, vc, video, steps, loads, overlap, speed,
      probe, calls, batch, last>>

(***************************************************************************)
(* FrameCache                                                              *)
(***************************************************************************)
\* Map.keys(), Map.has(k), Map.get(k), Map.delete(k), Map.set(k, v) on the entry
\* sequence: set on a present key replaces the value in place (the insertion order
\* of a Map does not change on overwrite), on an absent key it appends.
MapKeys(c) == {c[i].k : i \in DOMAIN c}
MapHas(c, k) == k \in MapKeys(c)
MapGet(c, k) == IF MapHas(c, k) THEN c[CHOOSE i \in DOMAIN c : c[i].k = k].v ELSE Null
MapDelete(c, k) == SelectSeq(c, LAMBDA e : e.k # k)
MapSet(c, k, v) ==
    IF MapHas(c, k)
    THEN [i \in DOMAIN c |-> IF c[i].k = k THEN [k |-> k, v |-> v] ELSE c[i]]
    ELSE Append(c, [k |-> k, v |-> v])

\* FrameCache.get: the value that get(frameNumber) returns
getReturns(c, frameNumber) ==
    IF ~MapHas(c, frameNumber) THEN Null ELSE MapGet(c, frameNumber)

\* a get that takes the entry out of the cache
cacheAfterGetDropped(c, frameNumber) == MapDelete(c, frameNumber)

\* a get that returns the entry where it is
cacheAfterGetInPlace(c, frameNumber) == c

\* FrameCache.get: the entries after get(frameNumber)
cacheAfterGet(c, frameNumber) ==
    IF ~MapHas(c, frameNumber)
    THEN c
    ELSE MapSet(MapDelete(c, frameNumber), frameNumber, MapGet(c, frameNumber))

\* a set that evicts only once the size has exceeded maxSize
cacheAfterSetLate(c, max, frameNumber, frameData) ==
    LET c1 == IF Len(c) > max /\ c # << >> THEN MapDelete(c, c[1].k) ELSE c
    IN  MapSet(c1, frameNumber, frameData)

\* FrameCache.set: the entries after set(frameNumber, frameData)
cacheAfterSet(c, max, frameNumber, frameData) ==
    LET c1 == IF Len(c) >= max /\ c # << >> THEN MapDelete(c, c[1].k) ELSE c
    IN  MapSet(c1, frameNumber, frameData)

\* history: k becomes the most recently touched key; keys no longer cached leave
Touch(t, k, keysAfter) ==
    SelectSeq(Append(SelectSeq(t, LAMBDA x : x # k), k), LAMBDA x : x \in keysAfter)

Idle == [op |-> "-", tag |-> "-"]

\* history: no get hit is watched
Unwatched == [on |-> FALSE, key |-> 0, seen |-> 0, others |-> {}, untouched |-> {}]

\* history: the watch after an operation that touched key k and left the keys
\* keysAfter cached. It ends when the watched key is touched again or leaves the
\* cache; seen counts the other entries cached at the watched get, others are
\* those of them that are still cached, untouched those of them that no get hit
\* and no set has touched since.
Observe(r, k, keysAfter) ==
    IF ~r.on \/ k = r.key \/ r.key \notin keysAfter THEN Unwatched
    ELSE [r EXCEPT !.others = @ \cap keysAfter,
                   !.untouched = (@ \ {k}) \cap keysAfter]

\* trace of a set: whether the key was new and whether the cache was at capacity
SetTag(k) ==
    IF MapHas(cache, k)
    THEN (IF Len(cache) >= maxSize THEN "overwriteFull" ELSE "overwrite")
    ELSE (IF Len(cache) >= maxSize THEN "insertFull" ELSE "insert")

\* get(frameNumber)
get(frameNumber) ==
    /\ cache' = cacheAfterGet(cache, frameNumber)
    /\ touched' = IF MapHas(cache, frameNumber)
                  THEN Touch(touched, frameNumber, MapKeys(cache))
                  ELSE touched
    /\ recent' = IF MapHas(cache, frameNumber)
                 THEN Observe(recent, frameNumber, MapKeys(cache))
                 ELSE recent
    /\ last' = [op |-> "get", tag |-> IF MapHas(cache, frameNumber) THEN "hit" ELSE "miss"]
    /\ UNCHANGED <<maxSize, extractions, vcVars, svcVars>>

\* set(frameNumber, frameData)
set(frameNumber, frameData) ==
    LET c == cacheAfterSet(cache, maxSize, frameNumber, frameData) IN
    /\ cache' = c
    /\ touched' = Touch(touched, frameNumber, MapKeys(c))
    /\ recent' = Observe(recent, frameNumber, MapKeys(c))
    /\ last' = [op |-> "set", tag |-> SetTag(frameNumber)]
    /\ UNCHANGED <<maxSize, extractions, vcVars, svcVars>>

\* has(frameNumber)
has(frameNumber) ==
    /\ last' = [op |-> "has", tag |-> IF MapHas(cache, frameNumber) THEN "true" ELSE "false"]
    /\ UNCHANGED <<cacheVars, vcVars, svcVars>>

\* An extraction that prefetch started and that has not settled. Its promise is
\* the value of this.pendingRequests under its key while its status is "pending";
\* "unmarked": the settling of another extraction of the same key deleted the
\* entry (pendingRequests.delete is by key); "cleared": clear() has been called
\* since the extraction was scheduled, so the map holds no entry of it.
Extraction(k, st) == [key |-> k, status |-> st]
Running == BagToSet(extractions)

\* this.pendingRequests.has(frameNumber)
pendingRequestsHas(ex, frameNumber) == BagIn(Extraction(frameNumber, "pending"), ex)

\* this.pendingRequests.clear(): every running extraction loses its entry
pendingRequestsClear(ex) ==
    LET ks == {e.key : e \in BagToSet(ex)}
        dropped(k) == CopiesIn(Extraction(k, "pending"), ex)
                          + CopiesIn(Extraction(k, "unmarked"), ex)
                          + CopiesIn(Extraction(k, "cleared"), ex)
    IN  [e \in {Extraction(k, "cleared") : k \in ks} |-> dropped(e.key)]

\* a delete that leaves the entry in the map
pendingRequestsKept(ex, frameNumber) == ex

\* this.pendingRequests.delete(frameNumber)
pendingRequestsDelete(ex, frameNumber) ==
    LET p == Extraction(frameNumber, "pending") IN
    IF BagIn(p, ex)
    THEN (ex (-) SetToBag({p})) (+) SetToBag({Extraction(frameNumber, "unmarked")})
    ELSE ex

\* clear(): the running extractions are not cancelled
clear ==
    /\ cache' = << >>
    /\ extractions' = pendingRequestsClear(extractions)
    /\ touched' = << >>
    /\ recent' = Unwatched
    /\ last' = [op |-> "clear", tag |-> "-"]
    /\ UNCHANGED <<maxSize, vcVars, svcVars>>

\* prefetch, lines 82-95: the frames to fetch for offsets i..radius
RECURSIVE framesToFetch(_, _, _, _)
framesToFetch(currentFrame, totalFrames, radius, i) ==
    IF i > radius THEN << >>
    ELSE LET nextFrame == currentFrame + i
             prevFrame == currentFrame - i
             wanted(f) == ~MapHas(cache, f) /\ ~pendingRequestsHas(extractions, f)
             fwd == IF nextFrame < totalFrames /\ wanted(nextFrame)
                    THEN <<nextFrame>> ELSE << >>
             bwd == IF prevFrame >= 0 /\ wanted(prevFrame)
                    THEN <<prevFrame>> ELSE << >>
         IN  fwd \o bwd \o framesToFetch(currentFrame, totalFrames, radius, i + 1)

\* prefetch(currentFrame, totalFrames, extractFn, radius): lines 98-110 call
\* extractFn for each frame in order and store the promise
prefetch(currentFrame, totalFrames, radius) ==
    LET frames == framesToFetch(currentFrame, totalFrames, radius, 1) IN
    /\ BagCardinality(extractions) + Len(frames) <= MaxInflight
    /\ extractions' = extractions (+)
           SetToBag({Extraction(frames[j], "pending") : j \in DOMAIN frames})
    /\ last' = [op |-> "prefetch", tag |-> IF frames = << >> THEN "nothing" ELSE "scheduled"]
    /\ UNCHANGED <<maxSize, cache, touched, recent, vcVars, svcVars>>

\* the .then handler of a scheduled extraction (lines 100-103)
prefetchResolved(e, data) ==
    /\ e \in Running
    /\ LET c == cacheAfterSet(cache, maxSize, e.key, data) IN
       /\ cache' = c
       /\ touched' = Touch(touched, e.key, MapKeys(c))
       /\ recent' = Observe(recent, e.key, MapKeys(c))
    /\ last' = [op |-> "prefetchResolved", tag |-> SetTag(e.key)]
    /\ extractions' = pendingRequestsDelete(extractions (-) SetToBag({e}), e.key)
    /\ UNCHANGED <<maxSize, vcVars, svcVars>>

\* the .catch handler of a scheduled extraction (lines 104-107)
prefetchRejected(e) ==
    /\ e \in Running
    /\ extractions' = pendingRequestsDelete(extractions (-) SetToBag({e}), e.key)
    /\ last' = [op |-> "prefetchRejected", tag |-> "-"]
    /\ UNCHANGED <<maxSize, cache, touched, recent, vcVars, svcVars>>

\* getPendingRequest(frameNumber)
getPendingRequest(frameNumber) ==
    /\ last' = [op |-> "getPendingRequest",
                tag |-> IF pendingRequestsHas(extractions, frameNumber)
                        THEN "handle" ELSE "null"]
    /\ UNCHANGED <<cacheVars, vcVars, svcVars>>

(***************************************************************************)
(* JavaScript arithmetic on numbers that may be NaN                        *)
(***************************************************************************)
JsAdd(x, y) == IF x = NaN \/ y = NaN THEN NaN ELSE x + y
JsMul(x, y) == IF x = NaN \/ y = NaN THEN NaN ELSE x * y
\* Math.max and Math.min return NaN when an argument is NaN
JsMax(x, y) == IF x = NaN \/ y = NaN THEN NaN ELSE IF x >= y THEN x ELSE y
JsMin(x, y) == IF x = NaN \/ y = NaN THEN NaN ELSE IF x <= y THEN x ELSE y
\* Math.floor(x / y) and Math.round(x / y) for x >= 0, y > 0 (round: half up)
JsFloorDiv(x, y) == IF x = NaN \/ y = NaN THEN NaN ELSE x \div y
JsRoundDiv(x, y) == IF x = NaN \/ y = NaN THEN NaN ELSE (2 * x + y) \div (2 * y)

(***************************************************************************)
(* Metadata of the files (ffmpeg-service.js, getMetadata)                  *)
(***************************************************************************)
Paths == {"a", "b"}
\* the files whose frame rate parses
WellFormedPaths == {"a"}

\* lines 57-64: "a" has r_frame_rate "1/1"; the r_frame_rate of "b" does not
\* parse as numbers, and Number() of it is NaN
ProbedFrameRate(p) == IF p = "a" THEN 1 ELSE NaN

\* lines 66-79: duration in ticks, totalFrames = floor(frameRate * duration)
Metadata(p) ==
    [frameRate |-> ProbedFrameRate(p),
     duration |-> MaxDuration * TicksPerSecond,
     totalFrames |-> JsFloorDiv(JsMul(ProbedFrameRate(p), MaxDuration * TicksPerSecond),
                                TicksPerSecond)]

(***************************************************************************)
(* The video element (HTMLMediaElement), as the controller uses it         *)
(***************************************************************************)
\* setting src runs the media element load algorithm: pending events are dropped,
\* the element is paused without a pause event, a running seek is abandoned and
\* the position returns to 0; an empty src ends in an error event
videoSetSrc(v, p) ==
    [v EXCEPT !.src = p,
              !.state = IF p = "" THEN "empty" ELSE "loading",
              !.paused = TRUE,
              !.seeking = FALSE,
              !.currentTime = 0,
              !.frameCb = FALSE,
              !.events = IF p = "" THEN <<"error">> ELSE << >>]

\* videoElement.pause()
videoPause(w) ==
    IF w.v.paused THEN w
    ELSE [w EXCEPT !.v.paused = TRUE, !.v.events = Append(@, "pause")]

\* videoElement.play(): rejected on an element whose source failed; an element
\* that has ended playback seeks back to the start
videoPlay(w) ==
    IF w.v.state = "empty" \/ ~w.v.paused THEN w
    ELSE IF w.v.state = "ready" /\ w.v.currentTime = Metadata(w.v.src).duration
    THEN [w EXCEPT !.v.paused = FALSE, !.v.events = Append(@, "play"),
                   !.v.currentTime = 0, !.v.seeking = TRUE]
    ELSE [w EXCEPT !.v.paused = FALSE, !.v.events = Append(@, "play")]

\* videoElement.currentTime = t: a seek when there is data (a seek in progress
\* is replaced), else only the start position
videoSetCurrentTime(w, t) ==
    [w EXCEPT !.v.currentTime = t, !.v.seeking = (w.v.state = "ready")]

(***************************************************************************)
(* VideoController                                                         *)
(***************************************************************************)
\* ctx.clearRect: nothing is drawn on the canvas
Blank == -1

\* lines 17-22
InitialController ==
    [filePath |-> Null, metadata |-> Null, currentFrame |-> 0, isPlaying |-> FALSE,
     isFrameMode |-> FALSE, isStepping |-> FALSE, canvas |-> Blank]

InitialVideo ==
    [src |-> "", state |-> "empty", paused |-> TRUE, seeking |-> FALSE, currentTime |-> 0,
     frameCb |-> FALSE, events |-> << >>, awaited |-> FALSE]


\* the state that a handler reads and writes, and the outcome it reports
World ==
    [c |-> vc, v |-> video, steps |-> steps, loads |-> loads, overlap |-> overlap, out |-> "-"]

\* history: no two calls are followed
NoOverlap == [on |-> FALSE, returned |-> 0, succeeded |-> 0]

\* this.metadata of a loaded controller
Meta(w) == Metadata(w.c.metadata)

\* the target without the upper end of the clamp
targetFrameOfUnclamped(currentFrame, delta, totalFrames) ==
    JsMax(0, JsAdd(currentFrame, delta))

\* lines 165-168
targetFrameOf(currentFrame, delta, totalFrames) ==
    JsMax(0, JsMin(JsAdd(currentFrame, delta), JsAdd(totalFrames, -1)))

\* lines 177-178: targetFrame * (1 / frameRate), in ticks
frameTime(frame, frameRate) ==
    IF frame = NaN \/ frameRate = NaN THEN NaN ELSE (frame * TicksPerSecond) \div frameRate

\* lines 70, 83: Math.round(time * frameRate), time in ticks
frameAtTime(time, frameRate) == JsRoundDiv(JsMul(time, frameRate), TicksPerSecond)

\* getState, lines 400-410; (x || 1) and (x || 0) replace NaN and 0
getState(c) ==
    LET md == Metadata(c.metadata)
        frameRate == IF c.metadata = Null \/ md.frameRate = NaN \/ md.frameRate = 0
                     THEN 1 ELSE md.frameRate
    IN  [isPlaying |-> c.isPlaying,
         isPaused |-> ~c.isPlaying /\ c.metadata # Null,
         isFrameMode |-> c.isFrameMode,
         currentFrame |-> c.currentFrame,
         totalFrames |-> IF c.metadata = Null \/ md.totalFrames = NaN THEN 0 ELSE md.totalFrames,
         currentTime |-> frameTime(c.currentFrame, frameRate),
         duration |-> IF c.metadata = Null THEN 0 ELSE md.duration]

\* drawVideoToCanvas: drawImage takes the frame at the element's playback
\* position; nothing without data
drawVideoToCanvas(w) ==
    IF w.v.state = "ready" THEN [w EXCEPT !.c.canvas = w.v.currentTime] ELSE w

\* enterFrameMode
enterFrameMode(w) == [w EXCEPT !.c.isFrameMode = TRUE]

\* exitFrameMode; setting currentTime to NaN throws a TypeError
exitFrameMode(w) ==
    IF ~w.c.isFrameMode THEN w
    ELSE LET targetTime == frameTime(w.c.currentFrame, Meta(w).frameRate)
             w1 == [w EXCEPT !.c.isFrameMode = FALSE]
         IN  IF targetTime = NaN THEN [w1 EXCEPT !.out = "threw"]
             ELSE videoSetCurrentTime(w1, targetTime)

\* the flag cleared inside the try block only: the path after the await leaves it set
stepFrameResumedInTry(w, step) ==
    LET w1 == drawVideoToCanvas(w)
        w2 == [w1 EXCEPT !.c.currentFrame = step.targetFrame]
    IN  IF w2.c.metadata = Null THEN w2 ELSE enterFrameMode(w2)

\* stepFrame after the await, lines 184-199; metadata is null after a reset, and
\* reading this.metadata.duration then throws into the catch
stepFrameResumed(w, step) ==
    LET w1 == drawVideoToCanvas(w)
        w2 == [w1 EXCEPT !.c.currentFrame = step.targetFrame]
    IN  IF w2.c.metadata = Null
        THEN [w2 EXCEPT !.c.isStepping = FALSE]
        ELSE [enterFrameMode(w2) EXCEPT !.c.isStepping = FALSE]

\* stepFrame(delta) up to its await, lines 153-181, with seekVideoToTime (206-222).
stepFrameCalled(w, delta) ==
    IF w.c.metadata = Null \/ w.c.isStepping THEN [w EXCEPT !.out = "ignored"]
    ELSE LET w1 == IF w.c.isPlaying THEN videoPause(w) ELSE w
             targetFrame == targetFrameOf(w.c.currentFrame, delta, Meta(w).totalFrames)
             targetTime == frameTime(targetFrame, Meta(w).frameRate)
             step == [targetFrame |-> targetFrame, stale |-> FALSE]
         IN  IF targetFrame # NaN /\ targetFrame = w.c.currentFrame
             THEN [w1 EXCEPT !.out = "noop"]
             ELSE IF targetTime = NaN
             THEN [w1 EXCEPT !.out = "failed"]
             ELSE IF w1.v.currentTime = targetTime
             THEN [stepFrameResumed(w1, step) EXCEPT !.out = "done"]
             ELSE [videoSetCurrentTime(w1, targetTime) EXCEPT
                       !.c.isStepping = TRUE,
                       !.steps = Append(@, step),
                       !.out = "awaiting"]

\* seekToProgress(k / ProgressSteps), lines 316-330
seekToProgressCalled(w, k) ==
    IF w.c.metadata = Null THEN [w EXCEPT !.out = "ignored"]
    ELSE LET targetFrame == JsRoundDiv(JsMul(k * Meta(w).duration, Meta(w).frameRate),
                                       ProgressSteps * TicksPerSecond)
         IN  IF w.c.isFrameMode \/ w.v.paused
             THEN stepFrameCalled(
                      [w EXCEPT !.c.currentFrame = JsMax(0, JsAdd(targetFrame, -1))],
                      1)
             ELSE [videoSetCurrentTime(w, (k * Meta(w).duration) \div ProgressSteps)
                       EXCEPT !.out = "native"]

\* reset(), lines 374-395; the calls awaiting a seek stay registered (marked stale
\* as history)
resetCalled(w) ==
    [w EXCEPT !.v = videoSetSrc(w.v, ""),
              !.c = InitialController,
              !.steps = [i \in DOMAIN w.steps |-> [w.steps[i] EXCEPT !.stale = TRUE]]]

\* the 'seeked' listeners run in the order they were added
RECURSIVE resumeAll(_, _)
resumeAll(w, ss) ==
    IF ss = << >> THEN w ELSE resumeAll(stepFrameResumed(w, Head(ss)), Tail(ss))

\* the state after a handler
Becomes(world) ==
    LET w == world
    IN  /\ Len(w.v.events) <= MaxEvents
        /\ Len(w.steps) <= MaxSteps
        /\ vc' = w.c
        /\ video' = w.v
        /\ steps' = w.steps
        /\ loads' = w.loads
        /\ overlap' = w.overlap

\* history: the outcome of a loadVideo call that has returned
Operation(name, world) ==
    LET w == world
    IN  /\ Becomes(IF w.overlap.on /\ name = "loadVideo" /\ w.out \in {"failed", "succeeded"}
                   THEN [w EXCEPT !.overlap.returned = @ + 1,
                                  !.overlap.succeeded =
                                      IF w.out = "succeeded" THEN @ + 1 ELSE @]
                   ELSE w)
        /\ last' = IF name = "loadVideo" /\ w.out \in {"failed", "succeeded"}
                   THEN [op |-> name, tag |-> w.out]
                   ELSE Idle

\* ---- calls of the presentation layer
stepFrame(delta) ==
    /\ Operation("stepFrame", stepFrameCalled(World, delta))
    /\ UNCHANGED <<cacheVars, svcVars>>

seekToProgress(k) ==
    /\ Operation("seekToProgress", seekToProgressCalled(World, k))
    /\ UNCHANGED <<cacheVars, svcVars>>

\* goToBeginning (frame-cache.js 462-465)
goToBeginning ==
    /\ Operation("goToBeginning",
                 IF vc.metadata = Null THEN [World EXCEPT !.out = "ignored"]
                 ELSE seekToProgressCalled(World, 0))
    /\ UNCHANGED <<cacheVars, svcVars>>

\* togglePlayPause, lines 284-293
togglePlayPause ==
    /\ Operation("togglePlayPause",
                 IF vc.metadata = Null THEN [World EXCEPT !.out = "ignored"]
                 ELSE IF vc.isPlaying THEN videoPause(World)
                 ELSE LET w == exitFrameMode(World)
                      IN  IF w.out = "threw" THEN w ELSE videoPlay(w))
    /\ UNCHANGED <<cacheVars, svcVars>>

\* play, lines 298-302
play ==
    /\ Operation("play",
                 IF vc.metadata = Null THEN [World EXCEPT !.out = "ignored"]
                 ELSE LET w == exitFrameMode(World)
                      IN  IF w.out = "threw" THEN w ELSE videoPlay(w))
    /\ UNCHANGED <<cacheVars, svcVars>>

\* pause, lines 307-310
pause ==
    /\ Operation("pause",
                 IF vc.metadata = Null THEN [World EXCEPT !.out = "ignored"]
                 ELSE videoPause(World))
    /\ UNCHANGED <<cacheVars, svcVars>>

\* loadVideo(filePath) up to its first await, lines 93-102
loadVideo(filePath) ==
    /\ BagCardinality(loads) < MaxLoads
    /\ Operation("loadVideo",
           [resetCalled(World) EXCEPT
                !.c.filePath = filePath,
                !.loads = @ (+) SetToBag({filePath}),
                !.out = "started"])
    \* this.frameCache.clear()
    /\ cache' = << >>
    /\ extractions' = pendingRequestsClear(extractions)
    /\ touched' = << >>
    /\ recent' = Unwatched
    /\ UNCHANGED <<maxSize, svcVars>>

\* history: loadVideo(filePath) while the only other call that has not returned awaits
\* the probe of another file; the two calls are followed from here on
loadVideoOver(filePath) ==
    /\ ~overlap.on
    /\ loads # EmptyBag
    /\ ~BagIn(filePath, loads)
    /\ ~video.awaited
    /\ BagCardinality(loads) <= MaxLoads
    /\ Operation("loadVideo",
           [resetCalled(World) EXCEPT
                !.c.filePath = filePath,
                !.loads = @ (+) SetToBag({filePath}),
                !.overlap = [on |-> TRUE, returned |-> 0, succeeded |-> 0],
                !.out = "started"])
    /\ cache' = << >>
    /\ extractions' = pendingRequestsClear(extractions)
    /\ touched' = << >>
    /\ recent' = Unwatched
    /\ UNCHANGED <<maxSize, svcVars>>

\* ---- completions of the probe
\* getVideoMetadata resolved: lines 102-113; the handlers of the load that
\* awaited the element before are replaced
probeResolved(filePath) ==
    /\ BagIn(filePath, loads)
    /\ Operation("probeResolved",
           [World EXCEPT !.c.metadata = filePath,
                         !.v = [videoSetSrc(video, filePath) EXCEPT !.awaited = TRUE],
                         !.loads = @ (-) SetToBag({filePath})])
    /\ UNCHANGED <<cacheVars, svcVars>>

\* getVideoMetadata rejected: lines 140-144, loadVideo returns false
probeRejected(filePath) ==
    /\ BagIn(filePath, loads)
    /\ Operation("loadVideo",
           [World EXCEPT !.loads = @ (-) SetToBag({filePath}), !.out = "failed"])
    /\ UNCHANGED <<cacheVars, svcVars>>

\* ---- the video element's own steps
\* the source has loaded its first frame; a position set while it was loading
\* is sought
nativeLoaded ==
    /\ video.state = "loading"
    /\ Becomes([World EXCEPT !.v.state = "ready", !.v.seeking = (video.currentTime # 0),
                             !.v.frameCb = TRUE, !.v.events = Append(@, "loadeddata")])
    /\ last' = Idle
    /\ UNCHANGED <<cacheVars, svcVars>>

\* the source cannot be loaded
nativeFailed ==
    /\ video.state = "loading"
    /\ Becomes([World EXCEPT !.v.state = "empty", !.v.events = Append(@, "error")])
    /\ last' = Idle
    /\ UNCHANGED <<cacheVars, svcVars>>

\* the running seek completes: the frame at currentTime is shown
seekCompleted ==
    /\ video.seeking
    /\ Becomes([World EXCEPT !.v.seeking = FALSE, !.v.frameCb = TRUE, !.v.events = Append(@, "seeked")])
    /\ last' = Idle
    /\ UNCHANGED <<cacheVars, svcVars>>

Playing == video.state = "ready" /\ ~video.paused /\ ~video.seeking

\* playback advances by a tick
playbackAdvanced ==
    /\ Playing
    /\ video.currentTime < Metadata(video.src).duration
    /\ Becomes([World EXCEPT !.v.currentTime = @ + 1, !.v.frameCb = TRUE])
    /\ last' = Idle
    /\ UNCHANGED <<cacheVars, svcVars>>

\* playback reaches the end: the element pauses itself, and fires 'pause' and
\* 'ended', whose handlers are the same: one event stands for the two
playbackEnded ==
    /\ Playing
    /\ video.currentTime = Metadata(video.src).duration
    /\ Len(video.events) < MaxEvents
    /\ Becomes([World EXCEPT !.v.paused = TRUE, !.v.events = Append(@, "ended")])
    /\ last' = Idle
    /\ UNCHANGED <<cacheVars, svcVars>>

\* ---- event handlers and callbacks
\* onVideoFrame, lines 68-75, for the frame the element has presented, whose
\* media time is the playback position when no seek is running
onVideoFrame ==
    /\ video.frameCb
    /\ ~video.seeking
    /\ Becomes(IF vc.metadata # Null /\ ~vc.isFrameMode
               THEN [World EXCEPT !.v.frameCb = FALSE,
                                  !.c.currentFrame =
                                      frameAtTime(video.currentTime, Meta(World).frameRate)]
               ELSE [World EXCEPT !.v.frameCb = FALSE])
    /\ last' = Idle
    /\ UNCHANGED <<cacheVars, svcVars>>

\* onTimeUpdate, lines 80-87: Electron's HTMLVideoElement has
\* requestVideoFrameCallback, so the handler's condition is false
onTimeUpdate ==
    /\ video.state = "ready"
    /\ Becomes(World)
    /\ last' = Idle
    /\ UNCHANGED <<cacheVars, svcVars>>

Dispatched == [World EXCEPT !.v.events = Tail(@)]

\* 'play', lines 41-45
onPlay ==
    /\ video.events # << >> /\ Head(video.events) = "play"
    /\ Operation("onPlay", exitFrameMode([Dispatched EXCEPT !.c.isPlaying = TRUE]))
    /\ UNCHANGED <<cacheVars, svcVars>>

\* 'pause', lines 47-50
onPause ==
    /\ video.events # << >> /\ Head(video.events) = "pause"
    /\ Operation("onPause", [Dispatched EXCEPT !.c.isPlaying = FALSE])
    /\ UNCHANGED <<cacheVars, svcVars>>

\* 'ended', lines 52-55
onEnded ==
    /\ video.events # << >> /\ Head(video.events) = "ended"
    /\ Operation("onEnded", [Dispatched EXCEPT !.c.isPlaying = FALSE])
    /\ UNCHANGED <<cacheVars, svcVars>>

\* 'seeked': the onSeeked listeners of seekVideoToTime (214-217) resolve, and
\* each stepFrame runs to its end
onSeeked ==
    /\ video.events # << >> /\ Head(video.events) = "seeked"
    /\ Becomes(resumeAll([Dispatched EXCEPT !.steps = << >>], steps))
    /\ last' = [op |-> "onSeeked",
                tag |-> IF steps = << >> THEN "-"
                        ELSE IF steps[Len(steps)].stale THEN "stale"
                        ELSE "resumed"]
    /\ UNCHANGED <<cacheVars, svcVars>>

\* onloadeddata = resolve: loadVideo continues, lines 115-139
onLoadedData ==
    /\ video.events # << >> /\ Head(video.events) = "loadeddata"
    /\ IF video.awaited
       THEN Operation("loadVideo",
                videoPlay([Dispatched EXCEPT !.c.currentFrame = 0,
                                             !.v.awaited = FALSE,
                                             !.out = "succeeded"]))
       ELSE Operation("onLoadedData", Dispatched)
    /\ UNCHANGED <<cacheVars, svcVars>>

\* onerror = reject: loadVideo returns false, lines 140-144
onError ==
    /\ video.events # << >> /\ Head(video.events) = "error"
    /\ IF video.awaited
       THEN Operation("loadVideo",
                [Dispatched EXCEPT !.v.awaited = FALSE, !.out = "failed"])
       ELSE Operation("onError", Dispatched)
    /\ UNCHANGED <<cacheVars, svcVars>>

(***************************************************************************)
(* Playback speed of the VideoController (frame-cache.js 149-153, 193-196, *)
(* 609-633, 680-693). Rates are counted in thousandths: 1.0 is 1000.       *)
(***************************************************************************)
playbackRateStep == 250
minPlaybackRate == 250
maxPlaybackRate == 2000
\* the rate of a new controller and of a reset one
defaultPlaybackRate == 1000

\* Number(x.toFixed(2)): x rounded to two decimals
toFixed2(x) == JsMul(JsRoundDiv(x, 10), 10)

\* normalizePlaybackRate without the clamp
normalizeUnclamped(value) ==
    toFixed2(JsMul(JsRoundDiv(value, playbackRateStep), playbackRateStep))

\* normalizePlaybackRate(value): Math.max and Math.min return NaN on a NaN argument
normalizePlaybackRate(value) ==
    LET clamped == JsMax(minPlaybackRate, JsMin(maxPlaybackRate, value))
        stepped == JsMul(JsRoundDiv(clamped, playbackRateStep), playbackRateStep)
    IN  toFixed2(stepped)

\* the values that setPlaybackRate is called with: NaN, values below, between, on
\* and above the steps
RateValues == {NaN, -500, 0, 100, 250, 370, 375, 1000, 1130, 1874, 2000, 2100, 3000}

InitialSpeed ==
    [playbackRate |-> defaultPlaybackRate,  \* this.playbackRate
     native |-> defaultPlaybackRate,        \* videoElement.playbackRate
     events |-> 0,                          \* 'ratechange' events queued
     metadata |-> FALSE,                    \* this.metadata is not null
     load |-> "none"]                       \* how far the loadVideo call has come

\* videoElement.playbackRate = next: a value that is not finite throws a TypeError
\* and leaves the attribute alone; a changed value queues 'ratechange'
videoSetPlaybackRate(s, next) ==
    IF next = NaN \/ next = s.native THEN s
    ELSE [s EXCEPT !.native = next, !.events = @ + 1]

\* setPlaybackRate(value), as a function of the state
playbackRateSet(s, value) ==
    LET next == normalizePlaybackRate(value)
    IN  videoSetPlaybackRate([s EXCEPT !.playbackRate = next], next)

\* the controller's rate before the call is kept in the trace
Rated(op, value, s) ==
    /\ s.events <= MaxEvents
    /\ speed' = s
    /\ last' = [op |-> op, value |-> value, before |-> speed.playbackRate]
    /\ UNCHANGED <<cacheVars, vcVars, probe, calls, batch>>

setPlaybackRate(value) == Rated("setPlaybackRate", value, playbackRateSet(speed, value))

\* adjustPlaybackRate(direction)
adjustPlaybackRate(direction) ==
    Rated("adjustPlaybackRate", direction,
          IF ~speed.metadata THEN speed
          ELSE playbackRateSet(speed,
                   JsAdd(speed.playbackRate, JsMul(direction, playbackRateStep))))

\* the 'ratechange' listener
onRateChange ==
    /\ speed.events > 0
    /\ Rated("onRateChange", 0, [speed EXCEPT !.events = @ - 1, !.playbackRate = speed.native])

\* loadVideo up to the probe: reset()
rateLoadVideo ==
    Rated("loadVideo", 0,
          videoSetPlaybackRate(
              [speed EXCEPT !.playbackRate = defaultPlaybackRate, !.metadata = FALSE,
                            !.load = "probing"],
              defaultPlaybackRate))

\* loadVideo after the probe: this.metadata is set and the source is assigned; loading
\* a source sets the element's playbackRate to its defaultPlaybackRate
rateProbed ==
    /\ speed.load = "probing"
    /\ Rated("probed", 0,
             videoSetPlaybackRate([speed EXCEPT !.metadata = TRUE, !.load = "loading"],
                                  defaultPlaybackRate))

\* loadVideo after 'loadeddata': this.setPlaybackRate(this.playbackRate)
rateReapplied ==
    /\ speed.load = "loading"
    /\ Rated("reapplied", speed.playbackRate,
             playbackRateSet([speed EXCEPT !.load = "none"], speed.playbackRate))

(***************************************************************************)
(* FFmpegService.getMetadata (ffmpeg-service.js 44-89).                    *)
(* A string is the sequence of its characters; a number is the fraction    *)
(* n / d, and NaN is the fraction with d = 0.                              *)
(***************************************************************************)
\* a field that ffprobe did not report: JavaScript undefined
Undefined == <<"undefined">>

Num(n, d) == [n |-> n, d |-> d]
Whole(n) == Num(n, 1)
NotANumber == Num(0, 0)
IsNaN(x) == x.d = 0
\* x is truthy: neither NaN nor 0
Truthy(x) == ~IsNaN(x) /\ x.n # 0
NumEq(x, y) == ~IsNaN(x) /\ ~IsNaN(y) /\ x.n * y.d = y.n * x.d
NumLess(x, y) == ~IsNaN(x) /\ ~IsNaN(y) /\ x.n * y.d < y.n * x.d
NumMul(x, y) == IF IsNaN(x) \/ IsNaN(y) THEN NotANumber ELSE Num(x.n * y.n, x.d * y.d)
\* x / y for y other than 0
NumDiv(x, y) ==
    IF IsNaN(x) \/ IsNaN(y) THEN NotANumber
    ELSE IF y.n < 0 THEN Num(-(x.n * y.d), x.d * (-y.n))
    ELSE Num(x.n * y.d, x.d * y.n)
\* Math.floor(x)
MathFloor(x) == IF IsNaN(x) THEN NotANumber ELSE Whole(x.n \div x.d)
\* Math.round(x * 1000) / 1000: Math.round rounds a half up
RoundTo3(x) ==
    IF IsNaN(x) THEN NotANumber ELSE Num((2 * 1000 * x.n + x.d) \div (2 * x.d), 1000)
\* a || b
OrElse(a, b) == IF Truthy(a) THEN a ELSE b

DigitValue ==
    [c \in {"0", "1", "2", "3", "4", "5", "6", "7", "8", "9"} |->
        CASE c = "0" -> 0 [] c = "1" -> 1 [] c = "2" -> 2 [] c = "3" -> 3 [] c = "4" -> 4
          [] c = "5" -> 5 [] c = "6" -> 6 [] c = "7" -> 7 [] c = "8" -> 8 [] c = "9" -> 9]
IsDigit(c) == c \in DOMAIN DigitValue

\* the number of digits of s from position i on
RECURSIVE DigitRun(_, _)
DigitRun(s, i) == IF i <= Len(s) /\ IsDigit(s[i]) THEN 1 + DigitRun(s, i + 1) ELSE 0

\* the value of a sequence of digits
RECURSIVE NatOf(_)
NatOf(s) ==
    IF s = << >> THEN 0 ELSE 10 * NatOf(SubSeq(s, 1, Len(s) - 1)) + DigitValue[s[Len(s)]]

RECURSIVE Pow10(_)
Pow10(k) == IF k = 0 THEN 1 ELSE 10 * Pow10(k - 1)

\* the longest prefix of s that is a decimal literal (sign, digits, point, digits):
\* its length and its value; the length is 0 when s does not start with a number
DecimalPrefix(s) ==
    LET signed == s # << >> /\ s[1] \in {"-", "+"}
        from == IF signed THEN 2 ELSE 1
        a == DigitRun(s, from)
        dot == from + a <= Len(s) /\ s[from + a] = "."
        b == IF dot THEN DigitRun(s, from + a + 1) ELSE 0
        magnitude == NatOf(SubSeq(s, from, from + a - 1)) * Pow10(b)
                        + NatOf(SubSeq(s, from + a + 1, from + a + b))
    IN  IF a + b = 0 THEN [len |-> 0, value |-> NotANumber]
        ELSE [len |-> (from - 1) + a + (IF dot THEN 1 + b ELSE 0),
              value |-> Num(IF signed /\ s[1] = "-" THEN -magnitude ELSE magnitude,
                            Pow10(b))]

\* Number(s) of a string without white space, exponent or radix prefix: the empty
\* string is 0, a string that is not wholly a number is NaN
Number(s) ==
    IF s = << >> THEN Whole(0)
    ELSE IF DecimalPrefix(s).len = Len(s) THEN DecimalPrefix(s).value
    ELSE NotANumber

\* parseFloat(s): the number that s starts with; undefined reads as "undefined"
parseFloat(s) == IF s = Undefined THEN NotANumber ELSE DecimalPrefix(s).value

\* s.split('/')
RECURSIVE split(_)
split(s) ==
    IF \A i \in DOMAIN s : s[i] # "/" THEN <<s>>
    ELSE LET i == CHOOSE j \in DOMAIN s :
                     s[j] = "/" /\ \A h \in 1..(j - 1) : s[h] # "/"
         IN  <<SubSeq(s, 1, i - 1)>> \o split(SubSeq(s, i + 1, Len(s)))

\* a string is truthy when it is neither undefined nor empty
Present(s) == s # Undefined /\ s # << >>

\* const [num, den] = field.split('/').map(Number); den ? num / den : num
rateOfField(field) ==
    LET parts == split(field)
        num == Number(parts[1])
    IN  IF Len(parts) >= 2 /\ Truthy(Number(parts[2]))
        THEN NumDiv(num, Number(parts[2]))
        ELSE num

\* the frame rate before it is rounded (lines 57-64)
parsedFrameRate(videoStream) ==
    IF Present(videoStream.r_frame_rate) THEN rateOfField(videoStream.r_frame_rate)
    ELSE IF Present(videoStream.avg_frame_rate) THEN rateOfField(videoStream.avg_frame_rate)
    ELSE Whole(30)

\* Math.floor(frameRate * duration), of the rate before it is rounded (line 71)
totalFramesOf(frameRate, duration) == MathFloor(NumMul(frameRate, duration))

\* the flag as a comparison of the parsed rates
isVFRByValue(videoStream) ==
    ~NumEq(rateOfField(videoStream.r_frame_rate), rateOfField(videoStream.avg_frame_rate))

\* videoStream.r_frame_rate !== videoStream.avg_frame_rate (line 74)
isVFR(videoStream) == videoStream.r_frame_rate # videoStream.avg_frame_rate

\* metadata.streams.find(s => s.codec_type === 'video'): its position, 0 if none
findVideo(streams) ==
    IF \E i \in DOMAIN streams : streams[i].codec_type = "video"
    THEN CHOOSE i \in DOMAIN streams :
             /\ streams[i].codec_type = "video"
             /\ \A h \in 1..(i - 1) : streams[h].codec_type # "video"
    ELSE 0

\* what getMetadata settles with when ffprobe calls back with metadata
getMetadata(metadata) ==
    IF findVideo(metadata.streams) = 0
    THEN [status |-> "rejected", error |-> "No video stream found"]
    ELSE LET videoStream == metadata.streams[findVideo(metadata.streams)]
             frameRate == parsedFrameRate(videoStream)
             duration == OrElse(parseFloat(videoStream.duration),
                                OrElse(parseFloat(metadata.format.duration), Whole(0)))
         IN  [status |-> "resolved",
              frameRate |-> RoundTo3(frameRate),
              duration |-> duration,
              totalFrames |-> totalFramesOf(frameRate, duration),
              isVFR |-> isVFR(videoStream)]

\* the rate fields and the duration fields that ffprobe reports
RateStrings ==
    {Undefined, << >>,
     <<"3", "0", "0", "0", "0", "/", "1", "0", "0", "1">>,
     <<"2", "5", "/", "1">>,
     <<"3", "0", "/", "1">>,
     <<"2", "9", "/", "1">>,
     <<"0", "/", "0">>,
     <<"N", "/", "A">>,
     <<"3", "0">>}
DurationStrings ==
    {Undefined,
     <<"1", "0">>,
     <<"1", "0", "0", "1", ".", "0">>,
     <<"0", ".", "5">>,
     <<"N", "/", "A">>}
AudioStream ==
    [codec_type |-> "audio", r_frame_rate |-> <<"0", "/", "0">>,
     avg_frame_rate |-> <<"0", "/", "0">>, duration |-> Undefined]
\* the reports of ffprobe: no stream, an audio stream alone, a video stream alone or
\* after an audio stream
ProbeReports ==
    {[streams |-> ss, format |-> [duration |-> fd]] :
        ss \in {<< >>, <<AudioStream>>}
               \cup UNION {{<<v>>, <<AudioStream, v>>} :
                              v \in [codec_type : {"video"}, r_frame_rate : RateStrings,
                                     avg_frame_rate : RateStrings,
                                     duration : DurationStrings]},
        fd \in DurationStrings}

\* ffprobe calls back with an error (line 48)
ffprobeFailed ==
    /\ probe.out.status = "pending"
    /\ probe' = [probe EXCEPT !.out = [status |-> "rejected",
                                       error |-> "Failed to probe video"]]
    /\ last' = [op |-> "ffprobeFailed"]
    /\ UNCHANGED <<cacheVars, vcVars, speed, calls, batch>>

\* ffprobe calls back with the metadata of the file (lines 51-86)
ffprobeReported ==
    /\ probe.out.status = "pending"
    /\ probe' = [probe EXCEPT !.out = getMetadata(probe.metadata)]
    /\ last' = [op |-> "ffprobeReported"]
    /\ UNCHANGED <<cacheVars, vcVars, speed, calls, batch>>

\* no getMetadata call
NoProbe == [metadata |-> [streams |-> << >>, format |-> [duration |-> Undefined]],
            out |-> [status |-> "none"]]

(***************************************************************************)
(* FFmpegService.extractFrame and extractFramesBatch                       *)
(* (ffmpeg-service.js 99-188): each call spawns a decode subprocess and    *)
(* settles on the first of its 'close', its 'error' and the 10 s timer.    *)
(***************************************************************************)
\* extractFrame calls in all, and the length of a batch
MaxCalls == 2
\* 'data' events of one subprocess
MaxChunks == 1
\* the frame numbers of a single call are 0..MaxFrameIndex
MaxFrameIndex == 70

\* the frame numbers and the frame rates that frames are extracted with
ExtractFrames == {1, 150}
ExtractRates == {Whole(30)}
\* the exit codes of the subprocess
ExitCodes == {0, 1}

\* Math.round(x): a half is rounded up
MathRound(x) == IF IsNaN(x) THEN NotANumber ELSE Whole((2 * x.n + x.d) \div (2 * x.d))
\* x - y
NumSub(x, y) ==
    IF IsNaN(x) \/ IsNaN(y) THEN NotANumber ELSE Num(x.n * y.d - y.n * x.d, x.d * y.d)
\* Math.max(x, y)
NumMax(x, y) ==
    IF IsNaN(x) \/ IsNaN(y) THEN NotANumber ELSE IF NumLess(x, y) THEN y ELSE x

\* the seek time without the clamp at 0
seekTimeUnclamped(frameNumber, frameRate) ==
    NumSub(NumDiv(Whole(frameNumber), frameRate), Whole(2))

\* seekTime = Math.max(0, timestamp - 2) (line 112)
seekTimeOf(frameNumber, frameRate) ==
    NumMax(Whole(0), NumSub(NumDiv(Whole(frameNumber), frameRate), Whole(2)))

\* relativeFrame = frameNumber - Math.round(seekTime * frameRate) (lines 113-114)
relativeFrame(frameNumber, frameRate) ==
    NumSub(Whole(frameNumber),
           MathRound(NumMul(seekTimeOf(frameNumber, frameRate), frameRate)))

\* the arguments of ffmpeg that depend on the call (lines 116-126): -ss is
\* seekTime.toFixed(3), the filter is select=eq(n, relativeFrame)
ffmpegArgs(frameNumber, frameRate) ==
    [ss |-> RoundTo3(seekTimeOf(frameNumber, frameRate)),
     select |-> relativeFrame(frameNumber, frameRate)]

Pending == [status |-> "pending"]
Fulfilled(value) == [status |-> "fulfilled", value |-> value]
Rejected(error) == [status |-> "rejected", error |-> error]

\* the state of a call when extractFrame returns its promise (lines 100-130, 162)
Spawned(frameNumber, frameRate) ==
    [frameNumber |-> frameNumber,
     frameRate |-> frameRate,
     timestamp |-> NumDiv(Whole(frameNumber), frameRate),
     args |-> ffmpegArgs(frameNumber, frameRate),
     chunks |-> 0,              \* chunks.length
     settled |-> FALSE,
     timeout |-> "armed",       \* the timer: armed, cleared or fired
     proc |-> "running",        \* the subprocess: running, failed ('error' was
                                \* emitted) or closed
     killed |-> FALSE,          \* proc.kill('SIGTERM') was called
     out |-> Pending,           \* the promise
     first |-> "none"]          \* history: the first 'close', 'error' or timer event of
                                \* the call; for 'close', the exit code and whether
                                \* there was output

\* the 'close' listener that accepts an exit code 0 without output
procClosedAnyOutput(c, code) ==
    IF c.settled THEN c
    ELSE [c EXCEPT !.settled = TRUE, !.timeout = "cleared",
                   !.out = IF code = 0
                           THEN Fulfilled([frameNumber |-> c.frameNumber,
                                           timestamp |-> c.timestamp,
                                           data |-> c.chunks, format |-> "jpeg"])
                           ELSE Rejected("FFmpeg exited with code")]

\* proc.on('close', (code) => ...) (lines 136-152)
procClosed(c, code) ==
    IF c.settled THEN c
    ELSE [c EXCEPT !.settled = TRUE, !.timeout = "cleared",
                   !.out = IF code = 0 /\ c.chunks > 0
                           THEN Fulfilled([frameNumber |-> c.frameNumber,
                                           timestamp |-> c.timestamp,
                                           data |-> c.chunks, format |-> "jpeg"])
                           ELSE Rejected("FFmpeg exited with code")]

\* the 'error' listener without the test of settled
procErroredUnguarded(c) ==
    [c EXCEPT !.settled = TRUE, !.timeout = "cleared",
              !.out = Rejected("Failed to spawn ffmpeg")]

\* proc.on('error', (err) => ...) (lines 154-159)
procErrored(c) ==
    IF c.settled THEN c
    ELSE [c EXCEPT !.settled = TRUE, !.timeout = "cleared",
                   !.out = Rejected("Failed to spawn ffmpeg")]

\* the timer callback that leaves a call that is running alone
timeoutExpiredIdle(c) == c

\* the callback of setTimeout(..., 10000) (lines 162-167)
timeoutExpired(c) ==
    IF c.settled THEN c
    ELSE [c EXCEPT !.settled = TRUE, !.killed = TRUE,
                   !.out = Rejected("Frame extraction timeout")]

\* extractFrame(filePath, frameNumber, frameRate)
extractFrame(frameNumber, frameRate) ==
    /\ Len(calls) < MaxCalls
    /\ calls' = Append(calls, Spawned(frameNumber, frameRate))
    /\ last' = [op |-> "extractFrame"]
    /\ UNCHANGED <<cacheVars, vcVars, speed, probe, batch>>

Event(i, op, c, entry) ==
    /\ calls' = [calls EXCEPT ![i] =
                     IF entry = "data" \/ c.first # "none" THEN c
                     ELSE [c EXCEPT !.first = entry]]
    /\ last' = [op |-> op]
    /\ UNCHANGED <<cacheVars, vcVars, speed, probe, batch>>

\* proc.stdout emits 'data' (lines 132-134)
procData(i) ==
    /\ calls[i].proc = "running"
    /\ calls[i].chunks < MaxChunks
    /\ Event(i, "procData", [calls[i] EXCEPT !.chunks = @ + 1], "data")

\* the subprocess has ended and its streams are closed: 'close' with its exit code
procClose(i, code) ==
    /\ calls[i].proc # "closed"
    /\ Event(i, "procClose", procClosed([calls[i] EXCEPT !.proc = "closed"], code),
             IF code # 0 THEN "close, exit code not 0"
             ELSE IF calls[i].chunks = 0 THEN "close, exit code 0, no output"
             ELSE "close, exit code 0, output")

\* the subprocess could not be spawned: 'error', before any output
procError(i) ==
    /\ calls[i].proc = "running"
    /\ calls[i].chunks = 0
    /\ Event(i, "procError", procErrored([calls[i] EXCEPT !.proc = "failed"]), "error")

\* the timer of the call fires
timeoutFired(i) ==
    /\ calls[i].timeout = "armed"
    /\ Event(i, "timeoutFired", timeoutExpired([calls[i] EXCEPT !.timeout = "fired"]),
             "timeout")

NoBatch == [status |-> "none", frameNumbers |-> << >>, first |-> 0, out |-> Pending]

\* promise.catch(handler) without a handler: the promise itself
catchNothing(frameNum, p) == p

\* promise.catch(err => ({frameNumber: frameNum, error: err.message})) (lines 181-184)
catchError(frameNum, p) ==
    IF p.status = "rejected"
    THEN Fulfilled([frameNumber |-> frameNum, error |-> p.error])
    ELSE p

\* Promise.all(promises): rejected with the first rejection, fulfilled with the values
\* in the order of the promises once all are fulfilled
PromiseAll(promises) ==
    IF \E j \in DOMAIN promises : promises[j].status = "rejected"
    THEN Rejected((promises[CHOOSE j \in DOMAIN promises :
                                promises[j].status = "rejected"]).error)
    ELSE IF \A j \in DOMAIN promises : promises[j].status = "fulfilled"
    THEN Fulfilled([j \in DOMAIN promises |-> promises[j].value])
    ELSE Pending

\* the promises that the batch awaits: the j-th is that of its j-th extractFrame call
batchPromises(b, cs) ==
    [j \in DOMAIN b.frameNumbers |-> catchError(b.frameNumbers[j], cs[b.first + j].out)]

\* extractFramesBatch(filePath, frameNumbers, frameRate): every extractFrame is called
\* before the function awaits
extractFramesBatch(frameNumbers, frameRate) ==
    /\ batch.status = "none"
    /\ Len(calls) + Len(frameNumbers) <= MaxCalls
    /\ calls' = calls \o [j \in DOMAIN frameNumbers |-> Spawned(frameNumbers[j], frameRate)]
    /\ batch' = [status |-> "pending", frameNumbers |-> frameNumbers,
                 first |-> Len(calls), out |-> Pending]
    /\ last' = [op |-> "extractFramesBatch"]
    /\ UNCHANGED <<cacheVars, vcVars, speed, probe>>

\* await Promise.all(...) resumes and the function returns, or throws
batchSettled ==
    /\ batch.status = "pending"
    /\ PromiseAll(batchPromises(batch, calls)).status # "pending"
    /\ batch' = [batch EXCEPT !.status = "settled",
                              !.out = PromiseAll(batchPromises(batch, calls))]
    /\ last' = [op |-> "batchSettled"]
    /\ UNCHANGED <<cacheVars, vcVars, speed, probe, calls>>

\* new FFmpegService()
InitService ==
    /\ probe = NoProbe
    /\ calls = << >>
    /\ batch = NoBatch

\* new VideoController(uiOverlay)
InitController ==
    /\ vc = InitialController
    /\ video = InitialVideo
    /\ steps = << >>
    /\ loads = EmptyBag
    /\ overlap = NoOverlap
    /\ speed = InitialSpeed

\* new FrameCache(maxSize)
InitCache ==
    /\ maxSize \in 1..MaxCap
    /\ cache = << >>
    /\ extractions = EmptyBag
    /\ touched = << >>
    /\ recent = Unwatched
    /\ InitController
    /\ InitService
    /\ last = Idle

NextCache ==
    \/ \E k \in Keys : get(k)
    \/ \E k \in Keys, v \in CacheValues : set(k, v)
    \/ \E k \in Keys : has(k)
    \/ clear
    \/ \E cur \in -2..(CacheTotalFrames + 1), r \in 0..MaxRadius :
          prefetch(cur, CacheTotalFrames, r)
    \/ \E e \in Running, v \in CacheValues : prefetchResolved(e, v)
    \/ \E e \in Running : prefetchRejected(e)
    \/ \E k \in Keys : getPendingRequest(k)

\* the cache under every call of its API and every completion of its extractions
SpecCache == InitCache /\ [][NextCache]_vars

\* new FrameCache(LruCap): the recency order alone, on a larger cache
InitLru ==
    /\ maxSize = LruCap
    /\ cache = << >>
    /\ extractions = EmptyBag
    /\ touched = << >>
    /\ recent = Unwatched
    /\ InitController
    /\ InitService
    /\ last = Idle

NextLru ==
    \/ \E k \in LruKeys : get(k)
    \/ \E k \in LruKeys, v \in Values : set(k, v)
    \/ \E k \in LruKeys : has(k)
    \/ clear

\* the cache under get, set, has and clear
SpecLru == InitLru /\ [][NextLru]_vars

\* history: the get hit that has just returned becomes the watched one
Watch ==
    /\ last = [op |-> "get", tag |-> "hit"]
    /\ LET k == cache[Len(cache)].k
       IN  recent' = [on |-> TRUE, key |-> k, seen |-> Len(cache) - 1,
                      others |-> MapKeys(cache) \ {k}, untouched |-> MapKeys(cache) \ {k}]
    /\ UNCHANGED <<maxSize, cache, extractions, touched, vcVars, svcVars, last>>

NextRecency ==
    \/ \E k \in LruKeys : get(k)
    \/ \E k \in LruKeys, v \in CacheValues : set(k, v)
    \/ \E k \in LruKeys : has(k)
    \/ clear
    \/ Watch

\* the cache under get, set, has and clear, one get hit at a time being watched
SpecRecency == InitLru /\ [][NextRecency]_vars

\* new VideoController: its cache is new FrameCache(30)
InitVC ==
    /\ maxSize = ControllerCacheSize
    /\ cache = << >>
    /\ extractions = EmptyBag
    /\ touched = << >>
    /\ recent = Unwatched
    /\ InitController
    /\ InitService
    /\ last = Idle

NextVC ==
    \/ \E delta \in (-MaxDelta)..MaxDelta : stepFrame(delta)
    \/ \E k \in 0..ProgressSteps : seekToProgress(k)
    \/ goToBeginning
    \/ togglePlayPause
    \/ play
    \/ pause
    \/ \E p \in WellFormedPaths : loadVideo(p)
    \/ \E p \in Paths : probeResolved(p)
    \/ \E p \in Paths : probeRejected(p)
    \/ nativeLoaded
    \/ nativeFailed
    \/ seekCompleted
    \/ playbackAdvanced
    \/ playbackEnded
    \/ onVideoFrame
    \/ onTimeUpdate
    \/ onPlay
    \/ onPause
    \/ onEnded
    \/ onSeeked
    \/ onLoadedData
    \/ onError

\* the controller under every call of the presentation layer and every event of
\* the video element, on files whose frame rate parses
SpecVC == InitVC /\ [][NextVC]_vars

\* the same under the scheduling of the renderer: the element ends a running seek and
\* a running load, and the event loop delivers every queued event
SpecVCFair ==
    /\ SpecVC
    /\ SF_vars(seekCompleted)
    /\ SF_vars(nativeLoaded \/ nativeFailed)
    /\ WF_vars(onPlay) /\ WF_vars(onPause) /\ WF_vars(onEnded)
    /\ WF_vars(onSeeked) /\ WF_vars(onLoadedData) /\ WF_vars(onError)

NextAnyFile ==
    \/ NextVC
    \/ \E p \in Paths \ WellFormedPaths : loadVideo(p)

\* the same, also on a file whose frame rate does not parse
SpecAnyFile == InitVC /\ [][NextAnyFile]_vars

NextOverlap ==
    \/ \E delta \in (-MaxDelta)..MaxDelta : stepFrame(delta)
    \/ \E k \in 0..ProgressSteps : seekToProgress(k)
    \/ togglePlayPause
    \/ \E p \in Paths : ~overlap.on /\ loadVideo(p)
    \/ \E p \in Paths : loadVideoOver(p)
    \/ \E p \in Paths : probeResolved(p)
    \/ \E p \in Paths : probeRejected(p)
    \/ nativeLoaded
    \/ nativeFailed
    \/ seekCompleted
    \/ playbackAdvanced
    \/ playbackEnded
    \/ onVideoFrame
    \/ onPlay
    \/ onPause
    \/ onEnded
    \/ onSeeked
    \/ onLoadedData
    \/ onError

\* the controller when two loadVideo calls for different files await their probes at
\* the same time, no further file being opened after them
SpecOverlap == InitVC /\ [][NextOverlap]_vars

NextSpeed ==
    \/ \E value \in RateValues : setPlaybackRate(value)
    \/ \E direction \in {-1, 1} : adjustPlaybackRate(direction)
    \/ onRateChange
    \/ rateLoadVideo
    \/ rateProbed
    \/ rateReapplied

\* the playback speed of the controller under its calls, the loading of a video and
\* the 'ratechange' events of the element
SpecSpeed == InitVC /\ [][NextSpeed]_vars

\* a getMetadata call on a file for which ffprobe reports one of ProbeReports
InitProbe ==
    /\ maxSize = ControllerCacheSize
    /\ cache = << >>
    /\ extractions = EmptyBag
    /\ touched = << >>
    /\ recent = Unwatched
    /\ InitController
    /\ probe \in {[metadata |-> m, out |-> Pending] : m \in ProbeReports}
    /\ calls = << >>
    /\ batch = NoBatch
    /\ last = Idle

NextProbe ==
    \/ ffprobeFailed
    \/ ffprobeReported

\* getMetadata on every report of ffprobe
SpecProbe == InitProbe /\ [][NextProbe]_vars

\* the lists of frame numbers that a batch is called with
BatchLists == UNION {[1..n -> ExtractFrames] : n \in 0..MaxCalls}

NextExtract ==
    \/ \E n \in ExtractFrames, r \in ExtractRates : extractFrame(n, r)
    \/ \E ns \in BatchLists, r \in ExtractRates : extractFramesBatch(ns, r)
    \/ \E i \in DOMAIN calls : procData(i)
    \/ \E i \in DOMAIN calls, code \in ExitCodes : procClose(i, code)
    \/ \E i \in DOMAIN calls : procError(i)
    \/ \E i \in DOMAIN calls : timeoutFired(i)
    \/ batchSettled

\* the extractor under every call and every behaviour of the subprocesses
SpecExtract == InitVC /\ [][NextExtract]_vars

\* the frame numbers and the frame rates, whole and fractional, of a single call
SelectFrames == 0..MaxFrameIndex
SelectRates ==
    {Num(1, 2), Whole(1), Num(23976, 1000), Whole(24), Num(2975, 100), Num(2997, 100),
     Whole(30)}

NextSelect ==
    \/ \E n \in SelectFrames, r \in SelectRates : calls = << >> /\ extractFrame(n, r)
    \/ \E i \in DOMAIN calls : procData(i)
    \/ \E i \in DOMAIN calls, code \in ExitCodes : procClose(i, code)
    \/ \E i \in DOMAIN calls : procError(i)
    \/ \E i \in DOMAIN calls : timeoutFired(i)

\* one extractFrame call, for every frame number and frame rate of the model
SpecSelect == InitVC /\ [][NextSelect]_vars

(***************************************************************************)
(* Claims about the cache                                                  *)
(***************************************************************************)
\* C8: after any sequence of put, get, has, clear, prefetch calls and prefetch
\* completions on a cache created with maxSize >= 1, the number of cached entries
\* is at most maxSize.
C8_SizeAtMostMaxSize == Len(cache) <= maxSize

\* C8 witness: a put or a prefetch completion has just stored a new key into a
\* cache that was at capacity, and the cache holds maxSize entries.
C8_Witness ==
    /\ last.op \in {"set", "prefetchResolved"}
    /\ last.tag = "insertFull"
    /\ Len(cache) = maxSize
    /\ maxSize > 1

\* C9: whenever a put of a new key into a full cache evicts, exactly one entry is
\* removed and it is the least-recently-touched key at that moment, a key being
\* touched by every put of it (first insertion or overwrite) and every get hit.
C9_EvictsLeastRecentlyTouched ==
    [][\A k \in LruKeys, v \in Values :
          (set(k, v) /\ ~MapHas(cache, k) /\ Len(cache) >= maxSize)
              => (MapKeys(cache) \ MapKeys(cache')) = {Head(touched)}]_vars

\* C10: a put for an index that is already cached, even when the cache is at
\* capacity, removes no other key: the set of cached keys is the same before and
\* after.
C10_OverwriteKeepsKeys ==
    [][\A k \in LruKeys, v \in Values :
          (set(k, v) /\ MapHas(cache, k)) => MapKeys(cache') = MapKeys(cache)]_vars

\* C11: in every state of the cache no frame index is both a key of a cached
\* entry and a key of a pending request, under every interleaving of put,
\* prefetch, clear and completions.
C11_CachedOrPendingNotBoth ==
    \A k \in Keys : ~(MapHas(cache, k) /\ pendingRequestsHas(extractions, k))

\* the extractions of k scheduled since the last clear() that have not settled
LiveExtractions(k) ==
    CopiesIn(Extraction(k, "pending"), extractions)
        + CopiesIn(Extraction(k, "unmarked"), extractions)

\* the indices of the window of prefetch(currentFrame, totalFrames, extractFn, radius)
Window(currentFrame, radius) ==
    {currentFrame + i : i \in 1..radius} \cup {currentFrame - i : i \in 1..radius}

\* C12: a prefetch call whose window contains an uncached index k, issued while
\* an extraction of k that an earlier prefetch (since the last clear) scheduled
\* has not settled, does not invoke extractFn for k again, and at that moment
\* getPendingRequest(k) returns the handle of the running extraction.
C12_OneExtractionPerIndex ==
    [][\A k \in Keys, cur \in -2..(CacheTotalFrames + 1), r \in 0..MaxRadius :
          (/\ prefetch(cur, CacheTotalFrames, r)
           /\ k \in Window(cur, r)
           /\ ~MapHas(cache, k)
           /\ LiveExtractions(k) >= 1)
          => /\ pendingRequestsHas(extractions, k)
             /\ extractions' = extractions]_vars

\* C13: an extraction scheduled before clear() that settles after it only
\* leaves: the cached entries and the in-flight markers of the other extractions
\* are as before.
C13_ClearedExtractionIsDiscarded ==
    [][\A e \in Running :
          (e.status = "cleared"
             /\ (prefetchRejected(e) \/ \E v \in CacheValues : prefetchResolved(e, v)))
          => /\ cache' = cache
             /\ extractions' = extractions (-) SetToBag({e})]_vars

\* a set has removed the watched key from the cache
WatchedEvicted ==
    /\ recent.on
    /\ recent.key \notin MapKeys(cache')
    /\ last'.op = "set"

\* get(k) hits and leaves the entries as they are but for k, which becomes the
\* last in the order of eviction; a get miss and has(k) change nothing
GetMovesHitToEnd ==
    \A k \in LruKeys :
        /\ (get(k) /\ MapHas(cache, k))
               => cache' = Append(MapDelete(cache, k), [k |-> k, v |-> MapGet(cache, k)])
        /\ (get(k) /\ ~MapHas(cache, k)) => (cache' = cache /\ touched' = touched)
        /\ has(k) => (cache' = cache /\ touched' = touched)

\* C17: a get hit moves k to most-recently-used: when k, not touched again, is
\* evicted, every other entry that was cached at the get and that no get hit and
\* no put has touched since has been evicted before; a get miss and has(k)
\* change neither the entries nor their order.
C17_GetHitIsMostRecent ==
    [][GetMovesHitToEnd /\ (WatchedEvicted => recent.untouched = {})]_vars

\* C17 witness: every entry that was cached at the watched get hit has been
\* evicted, and the watched key is the next to be evicted from the full cache
C17_Witness ==
    /\ recent.on
    /\ recent.seen >= 2
    /\ recent.others = {}
    /\ Len(cache) = maxSize /\ maxSize > 1
    /\ cache[1].k = recent.key

\* C17 as stated: when k, not touched again, is evicted, every other entry that
\* was cached at the get has been evicted before
C17_EvictedAfterAllOthers ==
    [][GetMovesHitToEnd /\ (WatchedEvicted => recent.others = {})]_vars

\* C18: after put(k, v) a get(k) returns v, and a get(k) leaves the value that
\* the next get(k) returns, the size of the cache and the set of cached keys as
\* they are.
C18_GetReturnsWhatWasPut ==
    [][\A k \in LruKeys :
          /\ \A v \in Values : set(k, v) => getReturns(cache', k) = v
          /\ get(k) => /\ getReturns(cache', k) = getReturns(cache, k)
                       /\ Len(cache') = Len(cache)
                       /\ MapKeys(cache') = MapKeys(cache)]_vars

\* C18 witness: a get has returned the frame of an entry of a full cache, and
\* frames with different payloads are cached
C18_Witness ==
    /\ last = [op |-> "get", tag |-> "hit"]
    /\ Len(cache) = maxSize
    /\ cache[Len(cache)].v = "y"
    /\ cache[1].v = "x"

\* the indices of the window in the order +1, -1, +2, -2, ..., from offset i
RECURSIVE WindowOrder(_, _, _)
WindowOrder(currentFrame, radius, i) ==
    IF i > radius THEN << >>
    ELSE <<currentFrame + i, currentFrame - i>> \o WindowOrder(currentFrame, radius, i + 1)

\* the indices of the window that are frames of the video, not cached and not
\* in flight
Schedulable(currentFrame, totalFrames, radius) ==
    SelectSeq(WindowOrder(currentFrame, radius, 1),
              LAMBDA f : /\ f \in 0..(totalFrames - 1)
                         /\ ~MapHas(cache, f)
                         /\ ~pendingRequestsHas(extractions, f))

\* C19: prefetch(currentIndex, totalFrames, extractFn, radius), for every
\* currentIndex inside or outside [0, totalFrames), schedules one extraction for
\* exactly the indices of its window that lie in [0, totalFrames), are not cached
\* and are not in flight, in the order +1, -1, +2, -2, ...
C19_PrefetchSchedulesWindowInRange ==
    [][\A cur \in -2..(CacheTotalFrames + 1), r \in 0..MaxRadius :
          prefetch(cur, CacheTotalFrames, r)
              => /\ framesToFetch(cur, CacheTotalFrames, r, 1)
                        = Schedulable(cur, CacheTotalFrames, r)
                 /\ \A e \in BagToSet(extractions') :
                        e.status = "pending" => e.key \in 0..(CacheTotalFrames - 1)]_vars

\* C20: when the extraction of index k that a prefetch scheduled fails, the
\* cached entries and their order stay as they are, the in-flight marker of k is
\* cleared and no other, no extraction is started, and a later prefetch whose
\* window covers k, k still uncached, schedules k again.
C20_FailedPrefetchIsInert ==
    [][\A e \in Running :
          (last'.op = "prefetchRejected" /\ prefetchRejected(e))
              => /\ cache' = cache /\ touched' = touched
                 /\ ~pendingRequestsHas(extractions', e.key)
                 /\ \A k \in Keys \ {e.key} :
                        pendingRequestsHas(extractions', k) <=> pendingRequestsHas(extractions, k)
                 /\ BagCardinality(extractions') = BagCardinality(extractions) - 1
                 /\ \A cur \in -2..(CacheTotalFrames + 1), r \in 0..MaxRadius :
                        (e.key \in Window(cur, r) \cap Keys /\ ~MapHas(cache', e.key))
                            => \E j \in DOMAIN framesToFetch(cur, CacheTotalFrames, r, 1)' :
                                   framesToFetch(cur, CacheTotalFrames, r, 1)'[j] = e.key]_vars

\* C20 witness: an extraction has failed while the cache holds an entry and
\* another extraction is running
C20_Witness ==
    /\ last.op = "prefetchRejected"
    /\ cache # << >>
    /\ extractions # EmptyBag

(***************************************************************************)
(* Claims about the controller (SpecVC)                                    *)
(***************************************************************************)
\* loadVideo has succeeded for the descriptor that is held, and the descriptor
\* has frame indices
LoadedValid ==
    /\ vc.metadata # Null
    /\ video.state = "ready" /\ ~video.awaited /\ video.src = vc.metadata
    /\ Metadata(vc.metadata).totalFrames # NaN
    /\ Metadata(vc.metadata).totalFrames >= 1

Clamped(x, lo, hi) == IF x < lo THEN lo ELSE IF x > hi THEN hi ELSE x

Deltas == (-MaxDelta)..MaxDelta

\* the state in which the n-th of the awaiting stepFrame calls resolves
ResolvedAt(n) == resumeAll([Dispatched EXCEPT !.steps = << >>], SubSeq(steps, 1, n))

C2_BoundaryStepIsNoOp ==
    [][\A delta \in {-1, 1} :
          (/\ stepFrame(delta)
           /\ LoadedValid
           /\ ~vc.isStepping
           /\ \/ delta = -1 /\ vc.currentFrame = 0
              \/ delta = 1 /\ vc.currentFrame = Metadata(vc.metadata).totalFrames - 1)
              => /\ vc' = vc
                 /\ steps' = steps
                 /\ video'.paused = video.paused
                 /\ video'.seeking = video.seeking
                 /\ video'.currentTime = video.currentTime]_vars

\* C3: at most one stepFrame awaits its seek, and isStepping is true exactly
\* while one does.
C3_OneStepInProgress ==
    /\ Len(steps) <= 1
    /\ vc.isStepping <=> steps # << >>

Nav(c) == <<c.currentFrame, c.isFrameMode, c.isPlaying>>

\* C4: a stepFrame that fails, called directly or by the paused branch of
\* seekToProgress, leaves current frame, mode and playing flag as they were.
C4_FailedStepChangesNothing ==
    [][/\ \A delta \in Deltas :
            (stepFrame(delta) /\ stepFrameCalled(World, delta).out = "failed")
                => Nav(vc') = Nav(vc)
       /\ \A k \in 0..ProgressSteps :
            (seekToProgress(k) /\ seekToProgressCalled(World, k).out = "failed")
                => Nav(vc') = Nav(vc)]_vars

\* C5: when loadVideo has returned false the controller is empty: no descriptor,
\* no file path, frame 0, not playing, not in frame mode.
C5_FailedLoadIsEmpty ==
    last = [op |-> "loadVideo", tag |-> "failed"]
        => /\ vc.metadata = Null
           /\ vc.filePath = Null
           /\ vc.currentFrame = 0
           /\ ~vc.isPlaying
           /\ ~vc.isFrameMode

\* round(f * duration * frameRate) clamped to the frame indices, f = k / ProgressSteps
ProgressFrame(k) ==
    Clamped((2 * k * Metadata(vc.metadata).duration * Metadata(vc.metadata).frameRate
                 + ProgressSteps * TicksPerSecond)
                \div (2 * ProgressSteps * TicksPerSecond),
            0, Metadata(vc.metadata).totalFrames - 1)

\* C6: seekToProgress(f) on a loaded video that is paused or in frame mode, with
\* no step outstanding, lands on round(f * duration * frameRate) clamped to the
\* frame indices: it has resolved there in frame mode with that frame on the
\* canvas, or it awaits the seek to that frame.
C6_SeekToProgressLandsOnFrame ==
    [][\A k \in 0..ProgressSteps :
          (/\ seekToProgress(k)
           /\ LoadedValid /\ steps = << >> /\ ~vc.isStepping
           /\ (vc.isFrameMode \/ video.paused))
              => \/ /\ steps' = << >>
                    /\ vc'.currentFrame = ProgressFrame(k)
                    /\ vc'.isFrameMode
                    /\ vc'.canvas = (ProgressFrame(k) * TicksPerSecond)
                           \div Metadata(vc.metadata).frameRate
                 \/ /\ Len(steps') = 1
                    /\ steps'[1].targetFrame = ProgressFrame(k)]_vars

\* C7: goToBeginning() on a loaded video that is paused or in frame mode goes to
\* frame 0: it has resolved with currentFrame = 0 or awaits the seek to frame 0.
C7_GoToBeginningIsFrameZero ==
    [][(/\ goToBeginning
        /\ LoadedValid /\ steps = << >> /\ ~vc.isStepping
        /\ (vc.isFrameMode \/ video.paused))
           => \/ steps' = << >> /\ vc'.currentFrame = 0
              \/ Len(steps') = 1 /\ steps'[1].targetFrame = 0]_vars

\* C14: a play() or togglePlayPause() call that leaves frame mode sets the
\* position of the video element to currentFrame / frameRate and leaves
\* currentFrame as it is.
C14_LeavingExactSyncsPosition ==
    [][((play \/ togglePlayPause) /\ vc.isFrameMode /\ ~vc'.isFrameMode)
          => /\ vc'.currentFrame = vc.currentFrame
             /\ video'.currentTime = frameTime(vc.currentFrame, Meta(World).frameRate)]_vars

\* C15: a rendered-frame or time-update event of the video element does not
\* change the index that the next stepFrame(delta) adds delta to.
C15_TimeEventsKeepSteppingIndex ==
    [][(onVideoFrame \/ onTimeUpdate) => vc'.currentFrame = vc.currentFrame]_vars

\* C16: when loadVideo(path) has returned true the controller holds the
\* descriptor probed for path and the element plays that file, the current frame
\* is 0, the controller is not in frame mode and not stepping, and the cache is
\* empty.
C16_LoadedIsContinuousAtZero ==
    last = [op |-> "loadVideo", tag |-> "succeeded"]
        => /\ vc.metadata # Null /\ vc.metadata = vc.filePath
           /\ video.src = vc.filePath /\ video.state = "ready"
           /\ ~video.paused
           /\ vc.currentFrame = 0
           /\ ~vc.isFrameMode
           /\ ~vc.isStepping
           /\ cache = << >> /\ extractions = EmptyBag

\* C21: whenever the seek completion is delivered to an awaiting stepFrame, which
\* then captures the video into the canvas, the seek that this call issued has
\* completed: the element is not seeking and is at the call's target time.
C21_CaptureAfterOwnSeek ==
    (video.events # << >> /\ Head(video.events) = "seeked")
        => \A n \in DOMAIN steps :
              /\ ~video.seeking
              /\ video.currentTime = frameTime(steps[n].targetFrame, Meta(World).frameRate)

\* C29: in frame mode with no stepFrame outstanding, the frame captured into the
\* canvas is the frame of the current index: the canvas holds the picture of the
\* video at currentFrame / frameRate.
C29_IndexIsCapturedFrame ==
    (LoadedValid /\ vc.isFrameMode /\ ~vc.isStepping /\ steps = << >>)
        => vc.canvas = frameTime(vc.currentFrame, Metadata(vc.metadata).frameRate)

(***************************************************************************)
(* Claims about the extractor                                              *)
(***************************************************************************)
CleanClose == "close, exit code 0, output"

\* C22: an extractFrame call returns a frame if and only if the first of the 'close',
\* the 'error' and the timer of the call is a 'close' with exit code 0 after output;
\* the frame has the frame number of the call, the timestamp frameNumber / frameRate
\* (5 for frame 150 at 30 frames per second) and the format jpeg; when the first event
\* is any other, the call is rejected.
C22_FrameIffCleanClose ==
    \A i \in DOMAIN calls :
        LET c == calls[i]
        IN  /\ (c.out.status = "fulfilled") <=> (c.first = CleanClose)
            /\ c.out.status = "fulfilled" =>
                  /\ c.out.value.frameNumber = c.frameNumber
                  /\ NumEq(NumMul(c.out.value.timestamp, c.frameRate),
                           Whole(c.frameNumber))
                  /\ (c.frameNumber = 150 /\ NumEq(c.frameRate, Whole(30))
                         => NumEq(c.out.value.timestamp, Whole(5)))
                  /\ c.out.value.format = "jpeg"
            /\ (c.first \notin {"none", CleanClose}) => c.out.status = "rejected"

\* a call for frame 150 has returned its frame, another one has failed on a close
\* with exit code 0 and no output
C22_Witness ==
    /\ \E i \in DOMAIN calls :
          /\ calls[i].frameNumber = 150
          /\ calls[i].out.status = "fulfilled"
    /\ \E i \in DOMAIN calls :
          /\ calls[i].first = "close, exit code 0, no output"
          /\ calls[i].out.status = "rejected"

\* C23: when the timer is the first event of a call, the subprocess is killed and the
\* call is rejected with the timeout error; a call whose timer has fired or has been
\* cleared is settled, whatever the subprocess did.
C23_TimeoutKillsAndRejects ==
    \A i \in DOMAIN calls :
        LET c == calls[i]
        IN  /\ c.first = "timeout" =>
                  /\ c.killed
                  /\ c.out = Rejected("Frame extraction timeout")
            /\ c.timeout # "armed" => c.settled /\ c.out.status # "pending"
            /\ c.killed => c.first = "timeout"

\* the timer of a call has fired while its subprocess, which had written output, was
\* running
C23_Witness ==
    \E i \in DOMAIN calls :
        /\ calls[i].timeout = "fired"
        /\ calls[i].proc = "running"
        /\ calls[i].chunks > 0
        /\ calls[i].killed

\* C24: a batch that has returned is fulfilled with a list as long as its list of
\* frame numbers; all its extractions have settled, and its j-th element is the frame
\* of the j-th extraction if that one succeeded and otherwise the record of the j-th
\* frame number and the error of the j-th extraction.
C24_BatchCollectsEveryOutcome ==
    batch.status = "settled" =>
        /\ batch.out.status = "fulfilled"
        /\ Len(batch.out.value) = Len(batch.frameNumbers)
        /\ \A j \in DOMAIN batch.frameNumbers :
              LET c == calls[batch.first + j]
                  r == batch.out.value[j]
              IN  /\ c.out.status # "pending"
                  /\ r.frameNumber = batch.frameNumbers[j]
                  /\ c.out.status = "fulfilled" => r = c.out.value
                  /\ c.out.status = "rejected" =>
                        r = [frameNumber |-> batch.frameNumbers[j], error |-> c.out.error]

\* a batch of two different frame numbers has returned the error of the first and the
\* frame of the second
C24_Witness ==
    /\ batch.status = "settled"
    /\ Len(batch.frameNumbers) = 2
    /\ batch.frameNumbers[1] # batch.frameNumbers[2]
    /\ calls[batch.first + 1].out.status = "rejected"
    /\ calls[batch.first + 2].out.status = "fulfilled"

(***************************************************************************)
(* Claims about the metadata probe                                         *)
(***************************************************************************)
\* the video stream of the report, and whether the call returned a descriptor
ProbedVideo == probe.metadata.streams[findVideo(probe.metadata.streams)]
Described == probe.out.status = "resolved"
\* a rate field parses when it is present and its value is a number
Parses(field) == Present(field) /\ ~IsNaN(rateOfField(field))
\* x and y are the same number, or both NaN
SameNum(x, y) == IF IsNaN(x) \/ IsNaN(y) THEN IsNaN(x) /\ IsNaN(y) ELSE NumEq(x, y)

\* C25: every descriptor that getMetadata returns has frameRate > 0 and
\* totalFrames >= 0, whatever the rate fields and the duration fields are.
C25_RatePositiveFramesNonNegative ==
    Described =>
        /\ NumLess(Whole(0), probe.out.frameRate)
        /\ NumLess(Whole(-1), probe.out.totalFrames)

\* the rate that the resolution order of the specification gives: the real rate if it
\* parses, else the average rate if it parses, else 30
ResolvedRate(videoStream) ==
    IF Parses(videoStream.r_frame_rate) THEN rateOfField(videoStream.r_frame_rate)
    ELSE IF Parses(videoStream.avg_frame_rate) THEN rateOfField(videoStream.avg_frame_rate)
    ELSE Whole(30)

\* C26: the descriptor's frame rate is, rounded to 3 decimals, the real rate N/D when
\* that field is present and parses, otherwise the average rate when it parses,
\* otherwise 30, a zero or absent denominator making the numerator the rate:
\* "30000/1001" gives 29.97, an absent real rate with average "25/1" gives 25, both
\* absent give 30.
C26_RateResolutionOrder ==
    Described =>
        /\ NumEq(probe.out.frameRate, RoundTo3(ResolvedRate(ProbedVideo)))
        /\ ProbedVideo.r_frame_rate = <<"3", "0", "0", "0", "0", "/", "1", "0", "0", "1">> => NumEq(probe.out.frameRate, Num(2997, 100))
        /\ (ProbedVideo.r_frame_rate = Undefined /\ ProbedVideo.avg_frame_rate = <<"2", "5", "/", "1">>)
              => NumEq(probe.out.frameRate, Whole(25))
        /\ (ProbedVideo.r_frame_rate = Undefined /\ ProbedVideo.avg_frame_rate = Undefined)
              => NumEq(probe.out.frameRate, Whole(30))

\* C27: the descriptor's isVFR flag is true exactly when the r_frame_rate string of the
\* video stream differs from its avg_frame_rate string, whichever field the frame rate
\* came from: "30/1" and "29/1" give true, equal strings and two absent fields false.
C27_VfrIsTextualDifference ==
    Described =>
        /\ probe.out.isVFR <=> (ProbedVideo.r_frame_rate # ProbedVideo.avg_frame_rate)
        /\ (ProbedVideo.r_frame_rate = <<"3", "0", "/", "1">> /\ ProbedVideo.avg_frame_rate = <<"2", "9", "/", "1">>)
              => probe.out.isVFR
        /\ (ProbedVideo.r_frame_rate = Undefined /\ ProbedVideo.avg_frame_rate = Undefined)
              => ~probe.out.isVFR

\* a descriptor of a stream with rates "30/1" and "29/1", and the flag set
C27_Witness ==
    /\ Described
    /\ ProbedVideo.r_frame_rate = <<"3", "0", "/", "1">>
    /\ ProbedVideo.avg_frame_rate = <<"2", "9", "/", "1">>
    /\ probe.out.isVFR

\* C30: the descriptor's totalFrames is floor(frameRate * duration) of the frameRate and
\* the duration of the descriptor itself.
C30_TotalFramesOfExposedRate ==
    Described =>
        SameNum(probe.out.totalFrames,
                MathFloor(NumMul(probe.out.frameRate, probe.out.duration)))

(***************************************************************************)
(* Claims about the playback speed                                         *)
(***************************************************************************)
\* 0.25, 0.5, ..., 2.0
PlaybackRates == {k * playbackRateStep : k \in 1..8}

C38_OutcomeIsOfFirstEvent ==
    \A i \in DOMAIN calls :
        LET c == calls[i]
        IN  /\ c.settled <=> c.first # "none"
            /\ c.out.status = (CASE c.first = "none" -> "pending"
                                 [] c.first = CleanClose -> "fulfilled"
                                 [] OTHER -> "rejected")
            /\ c.out.status = "rejected" =>
                  c.out.error = (CASE c.first = "error" -> "Failed to spawn ffmpeg"
                                   [] c.first = "timeout" -> "Frame extraction timeout"
                                   [] OTHER -> "FFmpeg exited with code")
            /\ c.killed <=> c.first = "timeout"
            /\ c.timeout = (CASE c.first = "none" -> "armed"
                              [] c.first = "timeout" -> "fired"
                              [] OTHER -> "cleared")

\* a call whose timer fired first, and whose subprocess then wrote output and closed
\* with exit code 0, and a call whose subprocess failed to spawn and then closed
C38_Witness ==
    /\ \E i \in DOMAIN calls :
          /\ calls[i].first = "timeout"
          /\ calls[i].proc = "closed"
          /\ calls[i].chunks > 0
    /\ \E i \in DOMAIN calls :
          /\ calls[i].first = "error"
          /\ calls[i].proc = "closed"

\* Math.ceil(x)
MathCeil(x) == Whole(-((-x.n) \div x.d))

\* C31: the frame that the select filter of a call picks after the coarse seek is at
\* least 0 and at most the frame number of the call, is the frame number itself when
\* the frame lies within the first 2 seconds, and is at most the number of frames of
\* 2 seconds, rounded up.
C31_RelativeFrameIsBounded ==
    \A i \in DOMAIN calls :
        LET c == calls[i]
            rel == c.args.select
        IN  /\ ~NumLess(rel, Whole(0))
            /\ ~NumLess(Whole(c.frameNumber), rel)
            /\ ~NumLess(Whole(2), c.timestamp) => NumEq(rel, Whole(c.frameNumber))
            /\ ~NumLess(MathCeil(NumMul(Whole(2), c.frameRate)), rel)

\* a call for a frame later than 2 seconds at 29.97 frames per second, whose filter
\* selects frame 60 after the seek
C31_Witness ==
    \E i \in DOMAIN calls :
        /\ calls[i].frameRate = Num(2997, 100)
        /\ NumLess(Whole(2), calls[i].timestamp)
        /\ NumEq(calls[i].args.select, Whole(60))

(***************************************************************************)
(* Claims about the controller under overlapping calls                     *)
(***************************************************************************)
\* C32: the controller is never playing while it is in frame mode, the canvas being
\* the visible surface.
C32_PlayingIsContinuous == vc.isPlaying => ~vc.isFrameMode

\* C33: in every loaded state the current frame index is at least 0 and at most
\* max(0, totalFrames - 1), in frame mode and during playback.
C33_IndexInRange ==
    LoadedValid =>
        /\ vc.currentFrame >= 0
        /\ vc.currentFrame <= JsMax(0, Meta(World).totalFrames - 1)

\* the stepFrame calls that were issued after the latest reset
Fresh(ss) == SelectSeq(ss, LAMBDA s : ~s.stale)

\* C34: when a seek completion is delivered, the controller becomes what it would
\* become if only the stepFrame calls issued after the latest reset were resumed: a
\* call that awaited its seek when reset ran writes neither the index nor the mode
\* nor the stepping flag.
C34_StaleStepIsInert ==
    (video.events # << >> /\ Head(video.events) = "seeked") =>
        LET w == [Dispatched EXCEPT !.steps = << >>]
        IN  resumeAll(w, steps).c = resumeAll(w, Fresh(steps)).c

\* C35: once two loadVideo calls for different files that overlapped have both returned,
\* the descriptor and the native source the controller holds belong to the file its
\* filePath names, and at most one of the two calls has returned true.
C35_OverlapEndsConsistent ==
    (overlap.on /\ overlap.returned = 2) =>
        /\ vc.metadata # Null => vc.metadata = vc.filePath
        /\ video.src # "" => video.src = vc.filePath
        /\ overlap.succeeded <= 1

\* C36: the in-flight marker follows the running extraction: while the extraction that
\* prefetch scheduled last for an index, after the latest clear(), has not settled, the
\* index is marked in flight; the settling of an older extraction never takes the
\* marker of the newer one away (no running extraction is left "unmarked" unless a
\* still newer one of its index holds the marker).
C36_MarkerFollowsLatestExtraction ==
    \A e \in Running :
        e.status = "unmarked" => pendingRequestsHas(extractions, e.key)

\* the element has reported the completion of a seek to its 'seeked' listeners
SeekDelivered == last.op = "onSeeked"

====
